---- MODULE Spec2Model ----
(***************************************************************************)
(* State-machine model of the world-model learner of bjoernwe/worldmodel.  *)
(*                                                                         *)
(* The repository holds two generations of the learner:                    *)
(*   - the partitioning generation: partitioning.py (Partitioning),        *)
(*     split_params.py (SplitParams) and worldmodel_tree.py                *)
(*     (WorldmodelTree); specification Spec;                               *)
(*   - the monolithic generation: worldmodel.py (WorldModelTree) with      *)
(*     add_data / single_splitting_step / learn; specification SpecTree.   *)
(*                                                                         *)
(* Observations are one-dimensional and drawn from Obs; a binary test is a *)
(* threshold (x > cut), which is what WorldmodelTrivial._test computes and *)
(* what the projection tests of the other strategies reduce to.            *)
(* Indices into the streams are 0-based as in the source; TLA+ sequences   *)
(* are 1-based, so stream position i is element i+1.                       *)
(***************************************************************************)
EXTENDS Integers, Sequences, FiniteSets, TLC

\* Bound on the number of stored observations.
MaxN == 4

\* Observation values (one feature dimension) and the cuts a test may use.
Obs == 0..2
Cuts == 0..1

\* Categorical actions; None is the unknown action add_data fills in.
Actions == {0, 1}
None == -1

VARIABLES
    data,           \* model.data / root.data: the observation stream
    actions,        \* model.actions / root.actions: one action per observation
    partitionings,  \* model.partitionings: action -> Partitioning
    err,            \* "" or the exception that escaped the running call
    nodes,          \* WorldModelTree: path -> [status, dat_ref, knn]
    root_labels,    \* root.labels
    root_labels_ndim,   \* root.labels.ndim: 1 for a vector, 2 for a column
    root_transitions,   \* root.transitions: action -> matrix, <<>> while None
    root_stats,     \* root.stats
    pc,             \* where learn stands: "idle", "loop" or "done"
    min_gain,       \* the argument of the running learn
    gain            \* the local variable gain of learn

treeVars == <<nodes, root_labels, root_labels_ndim, root_transitions, root_stats,
              pc, min_gain, gain>>
vars == <<data, actions, partitionings, err, nodes, root_labels, root_labels_ndim,
          root_transitions, root_stats, pc, min_gain, gain>>

----------------------------------------------------------------------------
(* Generic helpers over sequences, sets and count matrices.                *)

\* An optional value: <<>> is Python's None, <<v>> is v.
Nothing == <<>>
Just(v) == <<v>>

\* 0-based stream positions.
Refs(n) == 0..(n - 1)

\* np.count_nonzero(seq == v)
CountEq(seq, v) == Cardinality({i \in DOMAIN seq : seq[i] = v})

RECURSIVE SumSeq(_)
SumSeq(s) == IF s = <<>> THEN 0 ELSE Head(s) + SumSeq(Tail(s))

\* np.sum of a matrix stored as a sequence of rows.
MatSum(M) == SumSeq([r \in DOMAIN M |-> SumSeq(M[r])])

\* matrix[s, t] with 0-based state labels.
Cell(M, s, t) == M[s + 1][t + 1]

\* new_trans[r, :] = v
SetRow(M, r, v) ==
    [s \in DOMAIN M |-> IF s = r + 1 THEN [t \in DOMAIN M[s] |-> v] ELSE M[s]]

\* new_trans[:, c] = v
SetCol(M, c, v) ==
    [s \in DOMAIN M |-> [t \in DOMAIN M[s] |-> IF t = c + 1 THEN v ELSE M[s][t]]]

\* np.insert(new_trans, r, v, axis=0): the new row lands at position r.
InsertRow(M, r, v) ==
    [s \in 1..(Len(M) + 1) |->
        IF s < r + 1 THEN M[s]
        ELSE IF s = r + 1 THEN [t \in DOMAIN M[1] |-> v]
        ELSE M[s - 1]]

\* np.insert(new_trans, c, v, axis=1): the new column lands at position c.
InsertCol(M, c, v) ==
    [s \in DOMAIN M |->
        [t \in 1..(Len(M[s]) + 1) |->
            IF t < c + 1 THEN M[s][t]
            ELSE IF t = c + 1 THEN v
            ELSE M[s][t - 1]]]

----------------------------------------------------------------------------
(* Tree structure.  A node is named by its path from the root (a sequence  *)
(* of child numbers); a tree is a function from the paths of its nodes to  *)
(* the nodes' fields.                                                      *)

Root == <<>>

\* WorldmodelTree.__init__: a fresh node owns no data and no split.
NewNode == [data_refs |-> {}, split_params |-> Nothing, cached_split_params |-> Nothing]

Child(node, c) == Append(node, c)

\* Tree.is_leaf: a node without children.
IsLeaf(tree, node) == node \in DOMAIN tree /\ Child(node, 0) \notin DOMAIN tree

\* Tree.get_leaves: the leaves below node, left to right.
RECURSIVE GetLeaves(_, _)
GetLeaves(tree, node) ==
    IF IsLeaf(tree, node) THEN <<node>>
    ELSE GetLeaves(tree, Child(node, 0)) \o GetLeaves(tree, Child(node, 1))

\* Tree.get_number_of_leaves
GetNumberOfLeaves(tree) == Len(GetLeaves(tree, Root))

\* Tree.get_leaf_index: the position of a leaf in get_leaves() of the root.
GetLeafIndex(tree, node) ==
    LET leaves == GetLeaves(tree, Root)
    IN (CHOOSE i \in DOMAIN leaves : leaves[i] = node) - 1

\* Tree.split: two new leaf children; the node becomes an internal node.
TreeSplit(tree, node) ==
    [n \in DOMAIN tree \cup {Child(node, 0), Child(node, 1)} |->
        IF n \in DOMAIN tree THEN tree[n] ELSE NewNode]

\* WorldmodelTrivial._test: child 1 when the feature lies above the cut.
Test(x, params) == IF x > params THEN 1 ELSE 0

\* WorldmodelTree.get_data_refs: a leaf's own references, else its children's.
RECURSIVE GetDataRefs(_, _)
GetDataRefs(tree, node) ==
    IF IsLeaf(tree, node) THEN tree[node].data_refs
    ELSE GetDataRefs(tree, Child(node, 0)) \cup GetDataRefs(tree, Child(node, 1))

----------------------------------------------------------------------------
(* Model driver queries used by the partitioning generation.               *)

\* Worldmodel.get_number_of_samples
GetNumberOfSamples == Len(data)

\* Worldmodel.get_known_actions: the actions seen so far, None excluded.
GetKnownActions == {actions[i] : i \in DOMAIN actions} \ {None}

----------------------------------------------------------------------------
(* SplitParams: a split candidate of one leaf (split_params.py).  A         *)
(* partitioning p is a record [active_action, labels, transitions, tree];  *)
(* a candidate sp carries the fields of the SplitParams object, the lazily *)
(* computed ones as optional values.                                       *)

\* SplitParams.__init__
SplitParams(p, node, action, test_params) ==
    [model_action |-> action,
     node |-> node,
     test_params |-> test_params,
     gain |-> Nothing,
     new_labels |-> Nothing,
     new_dat_refs |-> Nothing,
     new_trans |-> Nothing,
     number_of_samples_when_created |-> Cardinality(GetDataRefs(p.tree, node))]

\* A variant of _init_new_labels that leaves the labels above the split state
\* where they are.
ShiftLabels_NoShift(labels, current_state) ==
    [i \in DOMAIN labels |-> IF labels[i] = current_state THEN -1 ELSE labels[i]]

\* _init_new_labels: labels above the split state move up by one and the
\* entries of the split state are marked -1.
ShiftLabels(labels, current_state) ==
    LET shifted == [i \in DOMAIN labels |->
                       IF labels[i] > current_state THEN labels[i] + 1 ELSE labels[i]]
    IN [i \in DOMAIN labels |-> IF shifted[i] = current_state THEN -1 ELSE shifted[i]]

\* SplitParams._init_new_labels
InitNewLabels(p, sp) ==
    IF sp.new_labels = Nothing
    THEN [sp EXCEPT !.new_labels =
             Just(ShiftLabels(p.labels, GetLeafIndex(p.tree, sp.node)))]
    ELSE sp

\* _update_labels: every marked entry gets current_state + test(data[r]).
Relabel(new_labels, current_state, test_params) ==
    [i \in DOMAIN new_labels |->
        IF new_labels[i] = -1
        THEN current_state + Test(data[i], test_params)
        ELSE new_labels[i]]

\* SplitParams._update_labels
UpdateLabels(p, sp) ==
    LET sp1 == InitNewLabels(p, sp)
    IN [sp1 EXCEPT !.new_labels =
           Just(Relabel(sp1.new_labels[1], GetLeafIndex(p.tree, sp.node), sp.test_params))]

\* A variant of get_new_labels that returns stored labels even when some of
\* them are still unassigned.
GetNewLabels_KeepUnassigned(p, sp) ==
    IF sp.new_labels = Nothing THEN UpdateLabels(p, sp) ELSE sp

\* SplitParams.get_new_labels: the candidate after the call.
GetNewLabels(p, sp) ==
    IF sp.new_labels = Nothing
       \/ \E i \in DOMAIN sp.new_labels[1] : sp.new_labels[1][i] < 0
    THEN UpdateLabels(p, sp)
    ELSE sp

\* np.where(new_labels == state)[0]
WhereEq(labels, state) == {i - 1 : i \in {j \in DOMAIN labels : labels[j] = state}}

\* The assertions of _update_dat_refs.
\* Variant of the assertions that accepts an empty partition.
DatRefsAsserts_AllowEmpty(p, sp, new_labels) ==
    LET current_state == GetLeafIndex(p.tree, sp.node)
    IN /\ \A i \in DOMAIN new_labels : new_labels[i] >= 0
       /\ Cardinality(p.tree[sp.node].data_refs)
            = CountEq(new_labels, current_state) + CountEq(new_labels, current_state + 1)

DatRefsAsserts(p, sp, new_labels) ==
    LET current_state == GetLeafIndex(p.tree, sp.node)
    IN /\ \A i \in DOMAIN new_labels : new_labels[i] >= 0
       /\ Cardinality(p.tree[sp.node].data_refs)
            = CountEq(new_labels, current_state) + CountEq(new_labels, current_state + 1)
       /\ WhereEq(new_labels, current_state) # {}
       /\ WhereEq(new_labels, current_state + 1) # {}

\* SplitParams._update_dat_refs: [sp, ok]; ok is FALSE when an assertion fails.
UpdateDatRefs(p, sp) ==
    LET current_state == GetLeafIndex(p.tree, sp.node)
        sp1 == GetNewLabels(p, sp)
        new_labels == sp1.new_labels[1]
    IN IF DatRefsAsserts(p, sp1, new_labels)
       THEN [sp |-> [sp1 EXCEPT !.new_dat_refs =
                        Just(<<WhereEq(new_labels, current_state),
                               WhereEq(new_labels, current_state + 1)>>)],
             ok |-> TRUE]
       ELSE [sp |-> sp1, ok |-> FALSE]

\* SplitParams.get_new_dat_refs
GetNewDatRefs(p, sp) ==
    IF sp.new_dat_refs = Nothing THEN UpdateDatRefs(p, sp) ELSE [sp |-> sp, ok |-> TRUE]

\* np.count_nonzero((labels_1 == l1) & (labels_2 == l2) & mask_actions) over the
\* transitions (r, r+1) with r in refs_1.
CountTransitions(refs_1, new_labels, action, l1, l2) ==
    Cardinality({r \in refs_1 : /\ new_labels[r + 1] = l1
                                /\ new_labels[r + 2] = l2
                                /\ actions[r + 1] = action})

\* Rows index_1 and index_2: the transitions that start in the split leaf.
FillOutgoing(M, refs, new_labels, action, index_1, K) ==
    LET refs_1 == refs \ {GetNumberOfSamples - 1}
    IN [s \in DOMAIN M |-> [t \in DOMAIN M[s] |->
          IF s - 1 \in {index_1, index_1 + 1} /\ t - 1 \in 0..K
          THEN CountTransitions(refs_1, new_labels, action, s - 1, t - 1)
          ELSE M[s][t]]]

\* Columns index_1 and index_2: the transitions that end in the split leaf.
\* Variant that leaves the columns of the two new states as they are.
FillIncoming_Skipped(M, refs, new_labels, action, index_1, K) == M

FillIncoming(M, refs, new_labels, action, index_1, K) ==
    LET refs_1 == {r - 1 : r \in refs \ {0}}
    IN [s \in DOMAIN M |-> [t \in DOMAIN M[s] |->
          IF t - 1 \in {index_1, index_1 + 1} /\ s - 1 \in 0..K
          THEN CountTransitions(refs_1, new_labels, action, s - 1, t - 1)
          ELSE M[s][t]]]

\* The body of the loop of _update_transition_matrices for one action.
NewTransitionMatrix(p, sp, new_labels, action) ==
    LET refs == GetDataRefs(p.tree, sp.node)
        index_1 == GetLeafIndex(p.tree, sp.node)
        K == GetNumberOfLeaves(p.tree)
        t0 == SetRow(p.transitions[action], index_1, 0)
        t1 == InsertRow(t0, index_1, 0)
        t2 == SetCol(t1, index_1, 0)
        t3 == InsertCol(t2, index_1, 0)
        t4 == FillOutgoing(t3, refs, new_labels, action, index_1, K)
    IN FillIncoming(t4, refs, new_labels, action, index_1, K)

\* The assertions of _update_transition_matrices.
\* Variant of the assertions without the comparison of the sums.
TransAsserts_NoSum(p, sp, new_labels) ==
    /\ IsLeaf(p.tree, sp.node)
    /\ Cardinality(GetDataRefs(p.tree, sp.node)) = sp.number_of_samples_when_created
    /\ GetKnownActions \subseteq DOMAIN p.transitions

TransAsserts(p, sp, new_labels) ==
    /\ IsLeaf(p.tree, sp.node)
    /\ Cardinality(GetDataRefs(p.tree, sp.node)) = sp.number_of_samples_when_created
    /\ GetKnownActions \subseteq DOMAIN p.transitions
    /\ \A action \in GetKnownActions :
          MatSum(NewTransitionMatrix(p, sp, new_labels, action))
            = MatSum(p.transitions[action])

\* SplitParams._update_transition_matrices: [sp, ok].
UpdateTransitionMatrices(p, sp) ==
    LET sp1 == GetNewLabels(p, sp)
        new_labels == sp1.new_labels[1]
    IN IF TransAsserts(p, sp1, new_labels)
       THEN [sp |-> [sp1 EXCEPT !.new_trans =
                        Just([action \in GetKnownActions |->
                                 NewTransitionMatrix(p, sp1, new_labels, action)])],
             ok |-> TRUE]
       ELSE [sp |-> sp1, ok |-> FALSE]

\* SplitParams.get_new_trans
GetNewTrans(p, sp) ==
    IF sp.new_trans = Nothing THEN UpdateTransitionMatrices(p, sp) ELSE [sp |-> sp, ok |-> TRUE]

----------------------------------------------------------------------------
(* WorldmodelTree and Partitioning (worldmodel_tree.py, partitioning.py).  *)

\* The descent of WorldmodelTree.classify for one row: at every internal node
\* go to the child the node's stored test names.
\* Variant that follows the child opposite to the test's answer.
RECURSIVE Descend_Opposite(_, _, _)
Descend_Opposite(tree, node, dat) ==
    IF IsLeaf(tree, node) THEN node
    ELSE Descend_Opposite(tree,
                 Child(node, 1 - Test(dat, tree[node].split_params[1].test_params)),
                 dat)

RECURSIVE Descend(_, _, _)
Descend(tree, node, dat) ==
    IF IsLeaf(tree, node) THEN node
    ELSE Descend(tree,
                 Child(node, Test(dat, tree[node].split_params[1].test_params)),
                 dat)

\* WorldmodelTree.classify: one leaf index per row of x.
Classify(tree, x) ==
    [i \in DOMAIN x |-> GetLeafIndex(tree, Descend(tree, Root, x[i]))]

\* Partitioning.__init__: all labels 0, a one-leaf tree, and per known action
\* a 1x1 matrix holding np.count_nonzero(model.actions == action).
Partitioning(active_action) ==
    [active_action |-> active_action,
     labels |-> [i \in 1..GetNumberOfSamples |-> 0],
     tree |-> [n \in {Root} |-> NewNode],
     transitions |-> [action \in GetKnownActions |-> << <<CountEq(actions, action)>> >>]]

\* split() asks the candidate for get_new_transition_matrices() and
\* get_new_data_refs(); split_params.py as given offers these results as
\* get_new_trans() and get_new_dat_refs() (new_transition_matrices() and
\* new_data_refs() of the candidate's contract).
GetNewTransitionMatrices(p, sp) == GetNewTrans(p, sp)
GetNewDataRefs(p, sp) == GetNewDatRefs(p, sp)

\* A variant of the end of split that gives the node no children.
SplitApplied_NoChildren(p, sp, new_dat_refs) ==
    [p EXCEPT !.tree[sp.node].split_params = Just(sp)]

\* The state WorldmodelTree.split leaves behind once all its checks passed.
\* Variant that hands the two sets of references to the wrong children.
SplitApplied_Swapped(p, sp, new_dat_refs) ==
    LET node == sp.node
        tree1 == TreeSplit(p.tree, node)
    IN [p EXCEPT !.tree =
           [tree1 EXCEPT ![Child(node, 0)].data_refs = new_dat_refs[2],
                         ![Child(node, 1)].data_refs = new_dat_refs[1],
                         ![node].data_refs = None,
                         ![node].split_params = Just(sp)]]

\* Variant that gives the first child the references of both.
SplitApplied_FirstTakesAll(p, sp, new_dat_refs) ==
    LET node == sp.node
        tree1 == TreeSplit(p.tree, node)
    IN [p EXCEPT !.tree =
           [tree1 EXCEPT ![Child(node, 0)].data_refs = new_dat_refs[1] \cup new_dat_refs[2],
                         ![Child(node, 1)].data_refs = new_dat_refs[2],
                         ![node].data_refs = None,
                         ![node].split_params = Just(sp)]]

SplitApplied(p, sp, new_dat_refs) ==
    LET node == sp.node
        tree1 == TreeSplit(p.tree, node)
    IN [p EXCEPT !.tree =
           [tree1 EXCEPT ![Child(node, 0)].data_refs = new_dat_refs[1],
                         ![Child(node, 1)].data_refs = new_dat_refs[2],
                         ![node].data_refs = None,
                         ![node].split_params = Just(sp)]]

\* WorldmodelTree.split(split_params) on the leaf sp.node: [p, err], the
\* partitioning after the call and the exception that escaped it ("" if none).
\* The assignments are made in the order of the source, so a failing check
\* leaves behind what was assigned before it.
WorldmodelTreeSplit(p, sp) ==
    LET node == sp.node
        leaf_index == GetLeafIndex(p.tree, node)
        p1 == [p EXCEPT !.tree[node].split_params = Just(sp)]
        sp2 == GetNewLabels(p1, sp)
        p2 == [p1 EXCEPT !.labels = sp2.new_labels[1],
                         !.tree[node].split_params = Just(sp2)]
        r3 == GetNewTransitionMatrices(p2, sp2)
        p3f == [p2 EXCEPT !.tree[node].split_params = Just(r3.sp)]
        p3 == [p3f EXCEPT !.transitions = r3.sp.new_trans[1]]
        r4 == GetNewDataRefs(p3, r3.sp)
        p4f == [p3 EXCEPT !.tree[node].split_params = Just(r4.sp)]
    IN IF ~IsLeaf(p.tree, node)
       THEN [p |-> p, err |-> "AssertionError"]
       ELSE IF Cardinality(p.tree[node].data_refs) # CountEq(p.labels, leaf_index)
       THEN [p |-> p1, err |-> "AssertionError"]
       ELSE IF ~r3.ok
       THEN [p |-> p3f, err |-> "AssertionError"]
       ELSE IF ~r4.ok
       THEN [p |-> p4f, err |-> "AssertionError"]
       ELSE [p |-> SplitApplied(p3, r4.sp, r4.sp.new_dat_refs[1]), err |-> ""]

\* SplitParams.apply
Apply(p, sp) == WorldmodelTreeSplit(p, sp)

----------------------------------------------------------------------------
(* Model driver of the partitioning generation: the calls that feed the    *)
(* streams and create the partitionings.                                   *)

\* The leaves take the references of the observations first..(n-1) that carry
\* their leaf index.
RegisterRefs(p, labels, first, n) ==
    [p EXCEPT !.labels = labels,
              !.tree = [node \in DOMAIN p.tree |->
                  IF IsLeaf(p.tree, node)
                  THEN [p.tree[node] EXCEPT !.data_refs =
                          @ \cup {r \in first..(n - 1) :
                                    labels[r + 1] = GetLeafIndex(p.tree, node)}]
                  ELSE p.tree[node]]]

\* record(source_label, target_label, action) for the transitions
\* first_source..(n-2) of the extended streams.
RecordTransitions(transitions, labels, acts, first_source, n) ==
    [action \in DOMAIN transitions |->
        [s \in DOMAIN transitions[action] |->
            [t \in DOMAIN transitions[action][s] |->
                transitions[action][s][t]
                + Cardinality({i \in first_source..(n - 2) :
                                  /\ acts[i + 1] = action
                                  /\ labels[i + 1] = s - 1
                                  /\ labels[i + 2] = t - 1})]]]

\* add_data for one partitioning: the new observations are classified against
\* the current tree and appended.
AddDataToPartitioning(p, x, acts) ==
    LET first_data == Len(p.labels)
        n == first_data + Len(x)
        labels == p.labels \o Classify(p.tree, x)
        first_source == IF first_data = 0 THEN 0 ELSE first_data - 1
        p1 == RegisterRefs(p, labels, first_data, n)
    IN [p1 EXCEPT !.transitions =
           RecordTransitions(p.transitions, labels, acts, first_source, n)]

\* The batches add_data may be given: up to two observations, and as many
\* actions or one fewer.
Batches == UNION {[1..n -> Obs] : n \in 1..2}
ActionBatches(n, known) == UNION {[1..m -> known] : m \in {n - 1, n}}

\* The streams are empty and no partitioning exists.
InitModel ==
    /\ data = <<>>
    /\ actions = <<>>
    /\ partitionings = <<>>
    /\ err = ""

\* Worldmodel.add_data(x, given)
AddData(x, given) ==
    LET new_actions == IF Len(given) < Len(x) THEN Append(given, None) ELSE given
        all_actions == actions \o new_actions
    IN /\ err = ""
       /\ Len(data) + Len(x) <= MaxN
       /\ data' = data \o x
       /\ actions' = all_actions
       /\ partitionings' = [a \in DOMAIN partitionings |->
              AddDataToPartitioning(partitionings[a], x, all_actions)]
       /\ UNCHANGED err
       /\ UNCHANGED treeVars

\* The driver creates one Partitioning per known action.
CreatePartitionings ==
    /\ err = ""
    /\ DOMAIN partitionings = {}
    /\ GetKnownActions # {}
    /\ partitionings' = [a \in GetKnownActions |->
           RegisterRefs(Partitioning(a), Partitioning(a).labels, 0, GetNumberOfSamples)]
    /\ UNCHANGED <<data, actions, err>>
    /\ UNCHANGED treeVars

\* A variant of the applied candidate that writes its labels to every
\* partitioning, as if the label vector were shared.
Split_SharedLabels(a, node, test_params) ==
    /\ err = ""
    /\ a \in DOMAIN partitionings
    /\ node \in DOMAIN partitionings[a].tree
    /\ \E r \in {Apply(partitionings[a],
                         SplitParams(partitionings[a], node, a, test_params))} :
          /\ partitionings' = [b \in DOMAIN partitionings |->
                IF b = a THEN r.p
                ELSE [partitionings[b] EXCEPT !.labels = r.p.labels]]
          /\ err' = r.err
    /\ UNCHANGED <<data, actions>>
    /\ UNCHANGED treeVars

\* A fresh candidate for a node is applied: SplitParams(node, action, params).apply()
Split(a, node, test_params) ==
    /\ err = ""
    /\ a \in DOMAIN partitionings
    /\ node \in DOMAIN partitionings[a].tree
    /\ \E r \in {Apply(partitionings[a],
                         SplitParams(partitionings[a], node, a, test_params))} :
          /\ partitionings' = [partitionings EXCEPT ![a] = r.p]
          /\ err' = r.err
    /\ UNCHANGED <<data, actions>>
    /\ UNCHANGED treeVars

\* The paths a node of a tree over Obs can have.
Nodes == UNION {[1..d -> {0, 1}] : d \in 0..2}

\* The steps of the partitioning generation: the streams are loaded, the
\* partitionings are created, and candidates are applied.
Next ==
    \/ \E x \in Batches :
         \E given \in ActionBatches(Len(x),
                IF DOMAIN partitionings = {} THEN Actions ELSE GetKnownActions) :
            DOMAIN partitionings = {} /\ AddData(x, given)
    \/ CreatePartitionings
    \/ \E a \in Actions, node \in Nodes, test_params \in Cuts : Split(a, node, test_params)

----------------------------------------------------------------------------
(* WorldModelTree (worldmodel.py): the monolithic generation.  A node is a *)
(* record [status, dat_ref, knn]; knn is the classifier _init_test fitted  *)
(* last, an optional cut.  The numerical part of _init_test (the spectral  *)
(* bi-partition and the fitted classifier) and the real value of the       *)
(* mutual information are inputs of an evaluation: the classifier is one   *)
(* of Cuts, the gain one of Gains.                                         *)

\* WorldModelTree.__init__
OldNewNode == [status |-> "leaf", dat_ref |-> {}, knn |-> Nothing]

\* _min_class_size, scaled down from the 50 of the source so that leaves of a
\* stream of MaxN observations can reach it.
MinClassSize == 1

\* float('-inf') and float('inf') among the gains.
NegInf == -1
Inf == 9

\* The values a gain (a difference of mutual informations) takes in the model
\* and the thresholds learn is called with.
Gains == 0..1
MinGains == {NegInf, 1}

\* A variant of get_leaves that lists the leaves of the second child first.
RECURSIVE OldGetLeaves_SecondFirst(_, _)
OldGetLeaves_SecondFirst(ns, node) ==
    IF ns[node].status = "leaf" THEN <<node>>
    ELSE OldGetLeaves_SecondFirst(ns, Child(node, 1))
         \o OldGetLeaves_SecondFirst(ns, Child(node, 0))

\* WorldModelTree.get_leaves
RECURSIVE OldGetLeaves(_, _)
OldGetLeaves(ns, node) ==
    IF ns[node].status = "leaf" THEN <<node>>
    ELSE OldGetLeaves(ns, Child(node, 0)) \o OldGetLeaves(ns, Child(node, 1))

\* WorldModelTree.get_class_label: the position among the root's leaves.
OldGetClassLabel(ns, node) ==
    LET leaves == OldGetLeaves(ns, Root)
    IN (CHOOSE i \in DOMAIN leaves : leaves[i] = node) - 1

\* WorldModelTree._test: the label the node's classifier gives x.
OldTest(ns, node, x) == Test(x, ns[node].knn[1])

\* WorldModelTree.classify for a single vector.
RECURSIVE OldClassify(_, _, _)
OldClassify(ns, node, x) ==
    IF ns[node].status = "leaf" THEN OldGetClassLabel(ns, node)
    ELSE OldClassify(ns, Child(node, OldTest(ns, node, x)), x)

\* WorldModelTree.get_transition_refs_strict(action): the sources t of the
\* transitions (t, t+1) of the action that lie inside the leaf.
OldGetTransitionRefsStrict(ns, node, action) ==
    {t \in ns[node].dat_ref : actions[t + 1] = action /\ (t + 1) \in ns[node].dat_ref}

\* WorldModelTree._merge_transition_matrices: the sum over all actions.
OldMergeTransitionMatrices(trans) ==
    LET K == Len(trans[CHOOSE a \in DOMAIN trans : TRUE])
    IN [s \in 1..K |-> [t \in 1..K |->
          LET RECURSIVE Sum(_)
              Sum(S) == IF S = {} THEN 0
                        ELSE LET a == CHOOSE b \in S : TRUE
                             IN trans[a][s][t] + Sum(S \ {a})
          IN Sum(DOMAIN trans)]]

\* Whether _matrix_entropy runs through: _entropy asserts a nonzero sum for
\* every row once there are two or more states.
MatrixEntropyDefined(M) ==
    Len(M) <= 1 \/ \A s \in DOMAIN M : SumSeq(M[s]) # 0

\* Whether _mutual_information runs through.
MutualInformationDefined(M) == MatSum(M) > 0 /\ MatrixEntropyDefined(M)

\* WorldModelTree._calc_stats: n_states and n_nodes of the snapshot; the
\* assertion of _matrix_entropy decides whether there is one.
OldCalcStats(ns, trans) ==
    LET P == OldMergeTransitionMatrices(trans)
    IN [ok |-> MatrixEntropyDefined(P),
        stats |-> [n_states |-> Len(P), n_nodes |-> Cardinality(DOMAIN ns)]]

\* WorldModelTree._relabel_data of a leaf: [ok, new_labels, new_dat_ref]; ok
\* is FALSE when one of the assertions on the two reference lists fails.
OldRelabelData(ns, labs, node) ==
    LET current_state == OldGetClassLabel(ns, node)
        child_i(ref_i) == OldTest(ns, node, data[ref_i + 1])
        new_dat_ref == <<{r \in ns[node].dat_ref : child_i(r) = 0},
                         {r \in ns[node].dat_ref : child_i(r) = 1}>>
    IN [ok |-> new_dat_ref[1] # {} /\ new_dat_ref[2] # {},
        new_labels |-> [i \in DOMAIN labs |->
            (IF labs[i] > current_state THEN labs[i] + 1 ELSE labs[i])
            + (IF (i - 1) \in ns[node].dat_ref THEN child_i(i - 1) ELSE 0)],
        new_dat_ref |-> new_dat_ref]

\* The largest entry of a label vector.
MaxLabel(new_labels) ==
    CHOOSE m \in {new_labels[i] : i \in DOMAIN new_labels} :
        \A i \in DOMAIN new_labels : new_labels[i] <= m

\* WorldModelTree._split_transition_matrix after its assertions: the row and
\* the column index1 are zeroed and doubled, and every transition of the
\* action that touched index1 is counted again under its new labels.
OldSplitTransitionMatrix(labs, trans, action, new_labels, index1) ==
    LET t0 == SetRow(trans[action], index1, 0)
        t1 == InsertRow(t0, index1, 0)
        t2 == SetCol(t1, index1, 0)
        t3 == InsertCol(t2, index1, 0)
    IN [s \in DOMAIN t3 |-> [t \in DOMAIN t3[s] |->
          t3[s][t] + Cardinality({i \in 0..(Len(new_labels) - 2) :
              /\ actions[i + 1] = action
              /\ (labs[i + 1] = index1 \/ labs[i + 2] = index1)
              /\ new_labels[i + 1] = s - 1
              /\ new_labels[i + 2] = t - 1})]]

\* WorldModelTree._split_transition_matrices: [ok, trans]; ok is FALSE when
\* the assertion on the merged sum or one on the largest label fails.
OldSplitTransitionMatrices(labs, trans, new_labels, index1) ==
    [ok |-> /\ MatSum(OldMergeTransitionMatrices(trans)) = Len(new_labels) - 1
            /\ \A action \in DOMAIN trans :
                  MaxLabel(new_labels) = Len(trans[action]),
     trans |-> [action \in DOMAIN trans |->
                  OldSplitTransitionMatrix(labs, trans, action, new_labels, index1)]]

\* WorldModelTree.split once _relabel_data returned rel and
\* _split_transition_matrices returned spl: the node gets two children that
\* own the two reference lists, labels and matrices are replaced.
OldSplitApplied(ns, labs, trans, node, rel, spl) ==
    IF ~rel.ok \/ ~spl.ok
    THEN [ok |-> FALSE, nodes |-> ns, labels |-> labs, transitions |-> trans]
    ELSE [ok |-> TRUE,
          nodes |-> [n \in DOMAIN ns \cup {Child(node, 0), Child(node, 1)} |->
              IF n = node THEN [ns[node] EXCEPT !.status = "split"]
              ELSE IF n = Child(node, 0)
                   THEN [OldNewNode EXCEPT !.dat_ref = rel.new_dat_ref[1]]
              ELSE IF n = Child(node, 1)
                   THEN [OldNewNode EXCEPT !.dat_ref = rel.new_dat_ref[2]]
              ELSE ns[n]],
          labels |-> rel.new_labels,
          transitions |-> spl.trans]

\* WorldModelTree.split once _relabel_data returned rel.
OldSplitRelabelled(ns, labs, trans, node, rel) ==
    OldSplitApplied(ns, labs, trans, node, rel,
                    OldSplitTransitionMatrices(labs, trans, rel.new_labels,
                                               OldGetClassLabel(ns, node)))

\* WorldModelTree.split of a leaf with one parent: [ok, nodes, labels,
\* transitions]; a failed assertion leaves the model as it was.
OldSplit(ns, labs, trans, node) ==
    OldSplitRelabelled(ns, labs, trans, node, OldRelabelData(ns, labs, node))

\* The ascending sequence of a set of integers.
RECURSIVE Sorted(_)
Sorted(S) ==
    IF S = {} THEN <<>>
    ELSE LET m == CHOOSE x \in S : \A y \in S : x <= y
         IN <<m>> \o Sorted(S \ {m})

\* The loop of add_data that hands the references first_data..N-1 to the
\* leaves their labels name.
OldAppendRefs(ns, labs, first_data) ==
    [n \in DOMAIN ns |->
        IF ns[n].status = "leaf"
        THEN [ns[n] EXCEPT !.dat_ref =
                @ \cup {i \in first_data..(Len(labs) - 1) :
                          labs[i + 1] = OldGetClassLabel(ns, n)}]
        ELSE ns[n]]

\* The loop of add_data that counts the transitions first_source..N-2; it
\* stops with a KeyError at the first action that has no matrix.
OldCountTransitions(trans, labs, acts, first_source) ==
    LET sources == first_source..(Len(labs) - 2)
        unknown == {i \in sources : acts[i + 1] \notin DOMAIN trans}
        stop == IF unknown = {} THEN Len(labs) - 1
                ELSE CHOOSE i \in unknown : \A j \in unknown : i <= j
    IN [ok |-> unknown = {},
        trans |-> [action \in DOMAIN trans |->
            [s \in DOMAIN trans[action] |-> [t \in DOMAIN trans[action][s] |->
                trans[action][s][t]
                + Cardinality({i \in sources :
                      /\ i < stop
                      /\ acts[i + 1] = action
                      /\ labs[i + 1] = s - 1
                      /\ labs[i + 2] = t - 1})]]]]

\* WorldModelTree.add_data(x, given) on the root.  The observations and the
\* labels are stored before the length of the actions is asserted, so a
\* failed assertion leaves them behind.  (Without actions the call behaves as
\* with n zeros on the first batch and as with n times None later.)
OldAddData(x, given) ==
    LET n == Len(x)
        new_labels == [i \in 1..n |-> OldClassify(nodes, Root, x[i])]
        new_actions == IF Len(given) < n THEN Append(given, None) ELSE given
        K == Len(OldGetLeaves(nodes, Root))
    IN /\ err = ""
       /\ pc = "idle"
       /\ Len(data) + n <= MaxN
       /\ IF data = <<>>
          THEN \* the first batch
               LET zeros == [a \in {new_actions[i] : i \in 1..n} |->
                                [s \in 1..K |-> [t \in 1..K |-> 0]]]
                   counted == OldCountTransitions(zeros, new_labels, new_actions, 0)
               IN /\ data' = x
                  /\ root_labels' = new_labels
                  /\ root_labels_ndim' = 1
                  /\ IF Len(new_actions) # n
                     THEN /\ err' = "AssertionError"
                          /\ UNCHANGED <<actions, nodes, root_transitions>>
                     ELSE /\ actions' = new_actions
                          /\ nodes' = OldAppendRefs(nodes, new_labels, 0)
                          /\ root_transitions' = counted.trans
                          /\ UNCHANGED err
          ELSE IF n = 1 /\ (root_labels_ndim = 2 \/ Len(root_labels) = 1)
          THEN \* a later batch whose labels vstack can append as a row of
               \* one entry
               LET all_labels == root_labels \o new_labels
                   all_actions == actions \o new_actions
                   counted == OldCountTransitions(root_transitions, all_labels,
                                                  all_actions, Len(data) - 1)
               IN /\ data' = data \o x
                  /\ root_labels' = all_labels
                  /\ root_labels_ndim' = 2
                  /\ IF Len(new_actions) # n
                     THEN /\ err' = "AssertionError"
                          /\ UNCHANGED <<actions, nodes, root_transitions>>
                     ELSE /\ actions' = all_actions
                          /\ nodes' = OldAppendRefs(nodes, all_labels, Len(data))
                          /\ root_transitions' = counted.trans
                          /\ err' = IF counted.ok THEN "" ELSE "KeyError"
          ELSE IF root_labels_ndim = 1 /\ Len(root_labels) = n
          THEN \* vstack makes labels a matrix of two rows of n entries;
               \* labels[n] is out of its bounds
               /\ data' = data \o x
               /\ root_labels' = <<root_labels, new_labels>>
               /\ root_labels_ndim' = 2
               /\ IF Len(new_actions) # n
                  THEN /\ err' = "AssertionError"
                       /\ UNCHANGED actions
                  ELSE /\ actions' = actions \o new_actions
                       /\ err' = "IndexError"
               /\ UNCHANGED <<nodes, root_transitions>>
          ELSE \* vstack of rows of different lengths fails
               /\ data' = data \o x
               /\ err' = "ValueError"
               /\ UNCHANGED <<root_labels, root_labels_ndim, actions, nodes,
                              root_transitions>>
       /\ UNCHANGED <<partitionings, root_stats, pc, min_gain, gain>>

\* WorldModelTree._reached_min_sample_size
OldReachedMinSampleSize(ns, trans, node) ==
    \A action \in DOMAIN trans \ {None} :
        Cardinality(OldGetTransitionRefsStrict(ns, node, action)) >= MinClassSize

\* The (leaf, action) pairs single_splitting_step evaluates.
Candidates(ns, trans) ==
    {<<OldGetLeaves(ns, Root)[i], action>> :
        i \in {j \in DOMAIN OldGetLeaves(ns, Root) :
                  OldReachedMinSampleSize(ns, trans, OldGetLeaves(ns, Root)[j])},
        action \in DOMAIN trans \ {None}}

\* What the numerical part of _init_test comes to for one candidate: no
\* classifier is fitted (the eigen-solver raises ArpackNoConvergence, or the
\* entries of the eigenvector have one sign and _init_test returns False), or
\* a classifier is fitted; gain is the gain the candidate gets if it is scored.
Outcomes ==
    {[kind |-> "none", cut |-> 0, gain |-> 0]}
    \cup {[kind |-> "knn", cut |-> c, gain |-> g] : c \in Cuts, g \in Gains}

\* One more line in the log of a step.
Logged(log, cand, kind, out) ==
    [c \in DOMAIN log \cup {cand} |->
        IF c = cand THEN [kind |-> kind, cut |-> out.cut, gain |-> out.gain]
        ELSE log[c]]

\* _init_test as far as the leaf's state goes: a fitted classifier is stored
\* in self.knn before its labels are looked at.
OldInitTest(ns, leaf, o) ==
    IF o.kind = "knn" THEN [ns EXCEPT ![leaf].knn = Just(o.cut)] ELSE ns

\* What one pass of the loop of _calculate_splitting_gain comes to, rel being
\* what _relabel_data and spl what _split_transition_matrices return: no
\* classifier, a classifier that gives the training data one class, a failed
\* assertion (only the eigen-solver's exception is caught), or a gain.
CandidateKind(ns1, trans, leaf, action, o, rel, spl) ==
    IF o.kind # "knn" THEN o.kind
    ELSE IF {Test(data[t + 1], o.cut) :
                t \in OldGetTransitionRefsStrict(ns1, leaf, action)} # {0, 1}
         THEN "one_class"
    ELSE IF ~(/\ rel.ok
              /\ spl.ok
              /\ MutualInformationDefined(spl.trans[action])
              /\ MutualInformationDefined(trans[action]))
         THEN "AssertionError"
    ELSE "gain"

\* The pass once _relabel_data returned rel.
CandidateRelabelled(ns1, labs, trans, leaf, action, o, rel) ==
    CandidateKind(ns1, trans, leaf, action, o, rel,
                  OldSplitTransitionMatrices(labs, trans, rel.new_labels,
                                             OldGetClassLabel(ns1, leaf)))

\* The pass for one action of the leaf.
EvaluateCandidate(ns1, labs, trans, leaf, action, o) ==
    CandidateRelabelled(ns1, labs, trans, leaf, action, o,
                        OldRelabelData(ns1, labs, leaf))

\* The state of the loop after a pass that came to kind.
GainLoopNext(st, ns1, leaf, action, o, kind) ==
    [nodes |-> ns1,
     best_gain |-> IF kind = "gain" /\ o.gain > st.best_gain
                   THEN o.gain ELSE st.best_gain,
     best_action |-> IF kind = "gain" /\ o.gain > st.best_gain
                     THEN action ELSE st.best_action,
     err |-> IF kind = "AssertionError" THEN kind ELSE "",
     ev |-> Logged(st.ev, <<leaf, action>>, kind, o)]

\* One pass of the loop, ns1 being the nodes after _init_test.
GainLoopPass(st, ns1, labs, trans, leaf, action, o) ==
    GainLoopNext(st, ns1, leaf, action, o,
                 EvaluateCandidate(ns1, labs, trans, leaf, action, o))

\* The loop of _calculate_splitting_gain over the remaining actions acts of a
\* leaf.  st is [nodes, best_gain, best_action, err, ev]; out[<<leaf, action>>]
\* is the outcome of _init_test.  A failed assertion ends the loop with err
\* set.
RECURSIVE GainLoop(_, _, _, _, _, _)
GainLoop(st, labs, trans, leaf, acts, out) ==
    IF acts = <<>> \/ st.err # "" THEN st
    ELSE GainLoop(GainLoopPass(st,
                               OldInitTest(st.nodes, leaf, out[<<leaf, Head(acts)>>]),
                               labs, trans, leaf, Head(acts),
                               out[<<leaf, Head(acts)>>]),
                  labs, trans, leaf, Tail(acts), out)

\* WorldModelTree._calculate_splitting_gain of a leaf.
OldCalculateSplittingGain(ns, labs, trans, leaf, log, out) ==
    GainLoop([nodes |-> ns, best_gain |-> NegInf, best_action |-> None,
              err |-> "", ev |-> log],
             labs, trans, leaf, Sorted(DOMAIN trans \ {None}), out)

\* The state of the loop of single_splitting_step after the leaf, r being what
\* _calculate_splitting_gain returned for it.
LeafLoopNext(st, leaf, r) ==
    [nodes |-> r.nodes,
     best_leaf |-> IF r.err = "" /\ r.best_gain > st.best_gain
                   THEN Just(leaf) ELSE st.best_leaf,
     best_gain |-> IF r.err = "" /\ r.best_gain > st.best_gain
                   THEN r.best_gain ELSE st.best_gain,
     best_action |-> IF r.err = "" /\ r.best_gain > st.best_gain
                     THEN r.best_action ELSE st.best_action,
     err |-> r.err,
     ev |-> r.ev]

\* The loop of single_splitting_step over the remaining leaves.  st is
\* [nodes, best_leaf, best_gain, best_action, err, ev].
RECURSIVE LeafLoop(_, _, _, _, _)
LeafLoop(st, labs, trans, leaves, out) ==
    IF leaves = <<>> \/ st.err # "" THEN st
    ELSE IF ~OldReachedMinSampleSize(st.nodes, trans, Head(leaves))
    THEN LeafLoop(st, labs, trans, Tail(leaves), out)
    ELSE LeafLoop(LeafLoopNext(st, Head(leaves),
                               OldCalculateSplittingGain(st.nodes, labs, trans,
                                                         Head(leaves), st.ev, out)),
                  labs, trans, Tail(leaves), out)

\* The result of a step that applies no split, e being the state the loop over
\* the leaves ended in: [nodes, labels, transitions, stats, gain, err, ev].
StepWithoutSplit(e, g) ==
    [nodes |-> e.nodes, labels |-> root_labels, transitions |-> root_transitions,
     stats |-> root_stats, gain |-> g, err |-> e.err, ev |-> e.ev]

\* The result of a step whose split sp went through; stats is the list of
\* snapshots after it.
StepWithSplit(e, sp, stats, g) ==
    [nodes |-> sp.nodes, labels |-> sp.labels, transitions |-> sp.transitions,
     stats |-> stats, gain |-> g, err |-> e.err, ev |-> e.ev]

\* The try block of single_splitting_step: what split or _calc_stats raise is
\* caught and answered with -inf.
StepTrySplit(e, sp, cs) ==
    IF ~sp.ok THEN StepWithoutSplit(e, NegInf)
    ELSE IF ~cs.ok THEN StepWithSplit(e, sp, root_stats, NegInf)
    ELSE StepWithSplit(e, sp, Append(root_stats, cs.stats), e.best_gain)

\* single_splitting_step after its loop over the leaves; sp is what split does
\* to the best leaf with the classifier the leaf holds by then (the call of
\* _init_test for the best action is commented out).
StepDecide(e, sp) ==
    IF e.err # "" THEN StepWithoutSplit(e, gain)
    ELSE IF e.best_leaf # Nothing /\ e.best_action # None /\ e.best_gain >= min_gain
    THEN StepTrySplit(e, sp, OldCalcStats(sp.nodes, sp.transitions))
    ELSE StepWithoutSplit(e, e.best_gain)

\* single_splitting_step once the loop over the leaves ended in e.
StepAfterLoop(e) ==
    StepDecide(e, OldSplit(e.nodes, root_labels, root_transitions, e.best_leaf[1]))

\* WorldModelTree.single_splitting_step(min_gain) for the outcomes out:
\* [nodes, labels, transitions, stats, gain, err, ev], gain the value returned
\* and ev what the step printed about each candidate.
OldSingleSplittingStep(out) ==
    StepAfterLoop(LeafLoop([nodes |-> nodes, best_leaf |-> Nothing,
                            best_gain |-> NegInf, best_action |-> None,
                            err |-> "", ev |-> <<>>],
                           root_labels, root_transitions,
                           OldGetLeaves(nodes, Root), out))

\* learn(min_gain) up to its loop: the first stats snapshot is taken and gain
\* starts at +inf.
Learn(mg) ==
    /\ err = ""
    /\ pc = "idle"
    /\ IF DOMAIN root_transitions = {}
       THEN \* no data yet: _calc_stats reads the shape of None
            /\ err' = "AttributeError"
            /\ UNCHANGED <<root_stats, pc, min_gain, gain>>
       ELSE /\ root_stats' =
                  IF root_stats = <<>> /\ OldCalcStats(nodes, root_transitions).ok
                  THEN <<OldCalcStats(nodes, root_transitions).stats>>
                  ELSE root_stats
            /\ err' =
                  IF root_stats = <<>> /\ ~OldCalcStats(nodes, root_transitions).ok
                  THEN "AssertionError" ELSE ""
            /\ pc' = "loop"
            /\ min_gain' = mg
            /\ gain' = Inf
    /\ UNCHANGED <<data, actions, partitionings, nodes, root_labels,
                   root_labels_ndim, root_transitions>>

\* One pass of the loop of learn: gain >= min_gain holds and
\* single_splitting_step is called.
SingleSplittingStep ==
    /\ err = ""
    /\ pc = "loop"
    /\ gain >= min_gain
    /\ \E out \in [Candidates(nodes, root_transitions) -> Outcomes] :
          \E r \in {OldSingleSplittingStep(out)} :
              /\ nodes' = r.nodes
              /\ root_labels' = r.labels
              /\ root_transitions' = r.transitions
              /\ root_stats' = r.stats
              /\ gain' = r.gain
              /\ err' = r.err
    /\ UNCHANGED <<data, actions, partitionings, root_labels_ndim, pc, min_gain>>

\* The loop of learn ends: gain >= min_gain fails (the merge phase has no
\* rounds) and learn returns.
LearnReturn ==
    /\ err = ""
    /\ pc = "loop"
    /\ ~(gain >= min_gain)
    /\ pc' = "done"
    /\ UNCHANGED <<data, actions, partitionings, err, nodes, root_labels,
                   root_labels_ndim, root_transitions, root_stats, min_gain, gain>>

\* A tree of one leaf without data, and no learn running.
InitTree ==
    /\ nodes = [n \in {Root} |-> OldNewNode]
    /\ root_labels = <<>>
    /\ root_labels_ndim = 1
    /\ root_transitions = <<>>
    /\ root_stats = <<>>
    /\ pc = "idle"
    /\ min_gain = 0
    /\ gain = 0

\* The batches the monolithic add_data is given while the stream has room for
\* room more observations.
OldBatches(room) == UNION {[1..n -> Obs] : n \in 1..room}

\* The action lists the monolithic add_data is given with n observations: of
\* any length up to n + 1.
OldActionBatches(n) == UNION {[1..m -> Actions] : m \in 0..(n + 1)}

\* The steps of the monolithic generation: data is added, then learn runs.
NextTree ==
    \/ /\ pc = "idle"
       /\ \E x \in OldBatches(MaxN - Len(data)) :
            \E given \in OldActionBatches(Len(x)) : OldAddData(x, given)
    \/ \E mg \in MinGains : Learn(mg)
    \/ SingleSplittingStep
    \/ LearnReturn

Init == InitModel /\ InitTree

Spec == Init /\ [][Next]_vars

SpecTree == Init /\ [][NextTree]_vars

\* The number of partitionings that are split in the runs in which candidates
\* are inspected.
MaxSplitPartitionings == 1

\* The partitionings whose tree has been split.
SplitPartitionings ==
    {a \in DOMAIN partitionings : GetNumberOfLeaves(partitionings[a].tree) > 1}

\* The steps of Next, with candidates applied to the partitionings of at most
\* MaxSplitPartitionings actions.
NextCandidates ==
    \/ \E x \in Batches :
         \E given \in ActionBatches(Len(x),
                IF DOMAIN partitionings = {} THEN Actions ELSE GetKnownActions) :
            DOMAIN partitionings = {} /\ AddData(x, given)
    \/ CreatePartitionings
    \/ \E a \in Actions, node \in Nodes, test_params \in Cuts :
         /\ a \in DOMAIN partitionings
         /\ Cardinality(SplitPartitionings \cup {a}) <= MaxSplitPartitionings
         /\ Split(a, node, test_params)

SpecCandidates == Init /\ [][NextCandidates]_vars

----------------------------------------------------------------------------
(* Properties of the partitioning generation, checked under Spec.          *)

\* The leaves of a partitioning, as a set.
LeafSet(p) == {node \in DOMAIN p.tree : IsLeaf(p.tree, node)}

\* The partitionings that completed all their calls.
Settled == IF err = "" THEN DOMAIN partitionings ELSE {}

\* A full recount over the streams: cell (s, t) is the number of pairs (i, i+1)
\* with action[i] = action, label[i] = s and label[i+1] = t.
Recount(labels, action, K) ==
    [s \in 1..K |-> [t \in 1..K |->
        Cardinality({i \in 0..(Len(labels) - 2) :
                        /\ actions[i + 1] = action
                        /\ labels[i + 1] = s - 1
                        /\ labels[i + 2] = t - 1})]]

\* C1: for every leaf, every binary test and every action, the transition
\* matrix the split candidate computes incrementally equals, cell for cell,
\* the (K+1)x(K+1) matrix recounted from scratch over the new label vector.
C1_IncrementalEqualsRecount ==
    \A a \in Settled :
        LET p == partitionings[a]
        IN \A node \in LeafSet(p), test_params \in Cuts :
              LET sp == GetNewLabels(p, SplitParams(p, node, a, test_params))
              IN \A action \in GetKnownActions :
                    NewTransitionMatrix(p, sp, sp.new_labels[1], action)
                      = Recount(sp.new_labels[1], action, GetNumberOfLeaves(p.tree) + 1)

\* C1 witness: a two-leaf partitioning with a candidate for its first leaf
\* whose matrix is returned, with a transition into the split leaf from the
\* other leaf and a transition that does not touch the split leaf.
C1_Witness ==
    \E a \in Settled :
        LET p == partitionings[a]
        IN /\ GetNumberOfLeaves(p.tree) = 2
           /\ \E node \in LeafSet(p), test_params \in Cuts :
                 LET r == GetNewTrans(p, SplitParams(p, node, a, test_params))
                     idx == GetLeafIndex(p.tree, node)
                 IN /\ idx = 0
                    /\ r.ok
                    /\ \E action \in GetKnownActions :
                          /\ Cell(r.sp.new_trans[1][action], 2, 2) > 0
                          /\ Cell(r.sp.new_trans[1][action], 2, 0)
                               + Cell(r.sp.new_trans[1][action], 2, 1) > 0
                          /\ Cell(r.sp.new_trans[1][action], 0, 1) > 0

\* The sum of all cells of every action's matrix of a partitioning.
TotalTransitions(p) ==
    SumSeq([i \in 1..Cardinality(DOMAIN p.transitions) |->
              LET RECURSIVE Nth(_, _)
                  Nth(S, k) == LET m == CHOOSE x \in S : \A y \in S : x <= y
                               IN IF k = 1 THEN m ELSE Nth(S \ {m}, k - 1)
              IN MatSum(p.transitions[Nth(DOMAIN p.transitions, i)])])

\* A step that applies a split to partitioning a: it gains one leaf and no
\* call failed.
SplitCompleted(a) ==
    /\ a \in DOMAIN partitionings
    /\ err' = ""
    /\ GetNumberOfLeaves(partitionings'[a].tree)
         = GetNumberOfLeaves(partitionings[a].tree) + 1

\* C2: a split that is applied leaves, for every action, the sum of all cells
\* of that action's matrix as it was before the split.
C2_SplitConservesSum ==
    [][\A a \in Actions :
          SplitCompleted(a) =>
              \A action \in DOMAIN partitionings[a].transitions :
                  MatSum(partitionings'[a].transitions[action])
                    = MatSum(partitionings[a].transitions[action])]_vars

\* C2 witness: a partitioning that a split was applied to and whose matrices
\* hold transitions of two actions.
C2_Witness ==
    \E a \in Settled :
        /\ GetNumberOfLeaves(partitionings[a].tree) >= 2
        /\ \A action \in Actions :
              /\ action \in DOMAIN partitionings[a].transitions
              /\ MatSum(partitionings[a].transitions[action]) > 0

\* C3: in every reachable state the cells of all actions' matrices of a
\* partitioning sum to N - 1, N the number of observations.
C3_SumIsNMinusOne ==
    \A a \in Settled :
        TotalTransitions(partitionings[a]) = GetNumberOfSamples - 1

\* C4: after any sequence of completed splits every label lies in 0..K-1, K
\* the number of leaves, every value of 0..K-1 occurs, and no entry is
\* negative.
C4_LabelsCoverLeaves ==
    \A a \in Settled :
        LET p == partitionings[a]
            K == GetNumberOfLeaves(p.tree)
        IN /\ \A i \in DOMAIN p.labels : p.labels[i] \in 0..(K - 1)
           /\ \A k \in 0..(K - 1) : \E i \in DOMAIN p.labels : p.labels[i] = k

\* C4 witness: a partitioning with three leaves, reached by two completed
\* splits.
C4_Witness ==
    \E a \in Settled : GetNumberOfLeaves(partitionings[a].tree) = 3

\* The leaf whose path agrees, at every inner node above it, with the test
\* stored at that node.
LeafOfTests(tree, x) ==
    CHOOSE leaf \in {node \in DOMAIN tree : IsLeaf(tree, node)} :
        \A d \in 1..Len(leaf) :
            leaf[d] = Test(x, tree[SubSeq(leaf, 1, d - 1)].split_params[1].test_params)

\* The number of leaves that precede a leaf in the left-to-right order.
LeavesBefore(tree, leaf) ==
    Cardinality({other \in DOMAIN tree :
        /\ IsLeaf(tree, other)
        /\ \E d \in 1..Len(other) :
              /\ d <= Len(leaf)
              /\ SubSeq(other, 1, d - 1) = SubSeq(leaf, 1, d - 1)
              /\ other[d] < leaf[d]})

\* C5: classify gives an observation the index of the leaf reached by
\* composing the tests stored along the path from the root.
C5_ClassifyComposesTests ==
    \A a \in Settled :
        LET tree == partitionings[a].tree
        IN \A x \in Obs :
              Classify(tree, <<x>>)[1] = LeavesBefore(tree, LeafOfTests(tree, x))

\* C5 witness: a tree of depth two, so that a path composes two tests.
C5_Witness ==
    \E a \in Settled :
        \E node \in DOMAIN partitionings[a].tree : Len(node) = 2

\* C6: after a split of leaf L is applied, classifying the observations L
\* owned gives index idx to exactly the first set of the candidate's new data
\* refs and idx + 1 to exactly the second; the children own those sets and the
\* label vector is the candidate's.
C6_ClassifyMatchesSplit ==
    [][\A a \in Actions, node \in Nodes, test_params \in Cuts :
          (/\ SplitCompleted(a)
           /\ node \in LeafSet(partitionings[a])
           /\ partitionings'[a] = Apply(partitionings[a],
                  SplitParams(partitionings[a], node, a, test_params)).p)
          => LET p == partitionings[a]
                 q == partitionings'[a]
                 idx == GetLeafIndex(p.tree, node)
                 r == GetNewDatRefs(p, GetNewLabels(p, SplitParams(p, node, a, test_params)))
                 refs == r.sp.new_dat_refs[1]
                 owned == p.tree[node].data_refs
             IN /\ {i \in owned : Classify(q.tree, <<data[i + 1]>>)[1] = idx} = refs[1]
                /\ {i \in owned : Classify(q.tree, <<data[i + 1]>>)[1] = idx + 1} = refs[2]
                /\ q.tree[Child(node, 0)].data_refs = refs[1]
                /\ q.tree[Child(node, 1)].data_refs = refs[2]
                /\ q.labels = r.sp.new_labels[1]]_vars

\* C6 witness: a split was applied to the second leaf of a partitioning, so
\* that the children have the indices 1 and 2.
C6_Witness ==
    \E a \in Settled :
        /\ <<1, 0>> \in DOMAIN partitionings[a].tree
        /\ partitionings[a].tree[<<1, 0>>].data_refs # {}

\* C10: new_labels() of a candidate never returns a label vector in which the
\* index idx or idx + 1 of the split leaf is unused.
C10_NewLabelsUseBothIndices ==
    \A a \in Settled :
        LET p == partitionings[a]
        IN \A node \in LeafSet(p), test_params \in Cuts :
              LET sp == GetNewLabels(p, SplitParams(p, node, a, test_params))
                  idx == GetLeafIndex(p.tree, node)
              IN /\ CountEq(sp.new_labels[1], idx) > 0
                 /\ CountEq(sp.new_labels[1], idx + 1) > 0

C17_StaleCandidateNotUsed ==
    [][\A a \in Actions :
          SplitCompleted(a) =>
             \A node \in LeafSet(partitionings[a]) \ LeafSet(partitionings'[a]) :
                \A test_params \in Cuts :
                   \A sp \in {GetNewLabels(partitionings[a],
                                 SplitParams(partitionings[a], node, a, test_params))} :
                       GetNewLabels(partitionings'[a], sp).new_labels # sp.new_labels]_vars

\* The objects of the partitioning generation in a state: the model, its
\* partitionings, their nodes, and the candidates nodes store.
ModelObj == [kind |-> "model", a |-> None, n |-> Root]
PartitioningObj(a) == [kind |-> "partitioning", a |-> a, n |-> Root]
NodeObj(a, n) == [kind |-> "node", a |-> a, n |-> n]
CandidateObj(a, n) == [kind |-> "candidate", a |-> a, n |-> n]

\* Worldmodel.partitionings: the model owns its partitionings.
ModelRefs == {PartitioningObj(a) : a \in DOMAIN partitionings}

\* Partitioning.__init__: self.model is a weakref.proxy, self.tree is the
\* root node itself.
PartitioningRefs(a) == {NodeObj(a, Root)}

\* WorldmodelTree: _partitioning and model are weakref proxies; the children
\* and the candidates in _split_params and _cached_split_params are held
\* themselves.
NodeRefs(a, n) ==
    {NodeObj(a, c) : c \in {Child(n, 0), Child(n, 1)} \cap DOMAIN partitionings[a].tree}
    \cup (IF partitionings[a].tree[n].split_params # Nothing
          THEN {CandidateObj(a, n)} ELSE {})
    \cup (IF partitionings[a].tree[n].cached_split_params # Nothing
          THEN {CandidateObj(a, n)} ELSE {})

\* SplitParams.__init__: _node is the node itself, _model the node's proxy,
\* and _partitioning the object model.partitionings[action] returns.
CandidateRefs(a, n) ==
    {NodeObj(a, n)}
    \cup {PartitioningObj(action) :
             action \in {partitionings[a].tree[n].split_params[1].model_action}
                        \cap DOMAIN partitionings}

\* The objects an object holds a reference to that is not weak.
StrongRefs(o) ==
    IF o.kind = "model" THEN ModelRefs
    ELSE IF o.kind = "partitioning" THEN PartitioningRefs(o.a)
    ELSE IF o.kind = "node" THEN NodeRefs(o.a, o.n)
    ELSE CandidateRefs(o.a, o.n)

\* The objects kept alive by the references that start in the objects of
\* frontier, seen being those found so far.
RECURSIVE KeptAlive(_, _)
KeptAlive(frontier, seen) ==
    IF frontier = {} THEN seen
    ELSE KeptAlive((UNION {StrongRefs(o) : o \in frontier}) \ seen,
                   seen \cup UNION {StrongRefs(o) : o \in frontier})

\* C18: no reference a tree node holds, itself or through the candidates it
\* stores, keeps the partitioning that owns it or the model alive.
C18_NodesKeepNoOwnerAlive ==
    \A a \in DOMAIN partitionings :
        \A n \in DOMAIN partitionings[a].tree :
            /\ PartitioningObj(a) \notin KeptAlive({NodeObj(a, n)}, {})
            /\ ModelObj \notin KeptAlive({NodeObj(a, n)}, {})

\* C19: new_labels() of a candidate for a leaf with index idx has the length
\* of the old label vector, gives every reference the leaf owns idx plus the
\* answer of the test, every old label above idx one more, and leaves every
\* old label below idx as it is.
C19_NewLabelsRelabelLeaf ==
    \A a \in Settled :
        \A node \in LeafSet(partitionings[a]), test_params \in Cuts :
            \A sp \in {GetNewLabels(partitionings[a],
                          SplitParams(partitionings[a], node, a, test_params))} :
                \A idx \in {GetLeafIndex(partitionings[a].tree, node)} :
                    /\ Len(sp.new_labels[1]) = Len(partitionings[a].labels)
                    /\ \A i \in DOMAIN partitionings[a].labels :
                          sp.new_labels[1][i] =
                             IF (i - 1) \in partitionings[a].tree[node].data_refs
                             THEN idx + Test(data[i], test_params)
                             ELSE IF partitionings[a].labels[i] > idx
                             THEN partitionings[a].labels[i] + 1
                             ELSE partitionings[a].labels[i]

\* C19 witness: a leaf with index 1 that owns observations, with labels below
\* and above it in the label vector.
C19_Witness ==
    \E a \in Settled :
        \E node \in LeafSet(partitionings[a]) :
            /\ GetLeafIndex(partitionings[a].tree, node) = 1
            /\ partitionings[a].tree[node].data_refs # {}
            /\ CountEq(partitionings[a].labels, 0) > 0
            /\ CountEq(partitionings[a].labels, 2) > 0

\* The loop of Partitioning.calc_best_split over the remaining leaves; gains
\* gives the value get_gain() of each leaf's candidate returns and best is
\* the leaf whose candidate is the best so far, if any.
RECURSIVE BestSplitLoop(_, _, _)
BestSplitLoop(leaves, gains, best) ==
    IF leaves = <<>> THEN best
    ELSE BestSplitLoop(Tail(leaves), gains,
                       IF best = Nothing \/ gains[Head(leaves)] >= gains[best[1]]
                       THEN Just(Head(leaves)) ELSE best)

\* Partitioning.calc_best_split: the leaf whose candidate is returned, none
\* while the model has no data.
CalcBestSplit(p, gains) ==
    IF data = <<>> THEN Nothing
    ELSE BestSplitLoop(GetLeaves(p.tree, Root), gains, Nothing)

\* C21: among candidates of the same maximal gain the one met first in the
\* order of the leaves is selected.
C21_FirstSeenWinsTies ==
    \A a \in Settled :
        \A gains \in [LeafSet(partitionings[a]) -> Gains] :
            \A best \in {CalcBestSplit(partitionings[a], gains)} :
                /\ best # Nothing
                /\ \A other \in LeafSet(partitionings[a]) :
                      /\ gains[other] <= gains[best[1]]
                      /\ gains[other] = gains[best[1]] =>
                            GetLeafIndex(partitionings[a].tree, best[1])
                              <= GetLeafIndex(partitionings[a].tree, other)

\* WorldmodelTree.get_transition_refs: [ok, refs], the start indices of the
\* selected transitions; ok is FALSE when the call fails (the branch for
\* heading_in starts with assert False).
GetTransitionRefs(tree, node, heading_in, inside, heading_out) ==
    LET refs_1 == GetDataRefs(tree, node)
        refs_0 == {r - 1 : r \in refs_1}
        N == GetNumberOfSamples
        refs_array_inside == {r \in refs_1 : r \in refs_0}
        refs_array_out == (refs_1 \ refs_0) \ {N - 1}
    IN [ok |-> ~heading_in,
        refs |-> (IF inside THEN refs_array_inside ELSE {})
                 \cup (IF heading_out THEN refs_array_out ELSE {})]

\* WorldmodelTree.get_transition_refs_for_action: the selected transitions
\* whose action is the given one.
GetTransitionRefsForAction(tree, node, action, heading_in, inside, heading_out) ==
    [ok |-> GetTransitionRefs(tree, node, heading_in, inside, heading_out).ok,
     refs |-> {r \in GetTransitionRefs(tree, node, heading_in, inside, heading_out).refs :
                  actions[r + 1] = action}]

\* C22: the leaf whose candidate an evaluation round selects has, for every
\* known action, at least the minimum number of strict transitions with that
\* action.
C22_OnlyLeavesWithEnoughSamples ==
    \A a \in Settled :
        \A gains \in [LeafSet(partitionings[a]) -> Gains] :
            \A best \in {CalcBestSplit(partitionings[a], gains)} :
                best # Nothing =>
                    \A action \in GetKnownActions :
                        Cardinality(GetTransitionRefsForAction(partitionings[a].tree,
                                        best[1], action, FALSE, TRUE, FALSE).refs)
                          >= MinClassSize

\* The two ways model.gain_measure lets get_gain compute the gain.
GainMeasures == {"local", "global"}

\* The 2x2 matrix _calc_local_gain counts for one action from the transition
\* that starts at refs_1 (the added uncertainty bias is the same constant in
\* every cell and is left out).
LocalMatrix(new_labels, refs_1, current_state, action) ==
    [s \in 1..2 |-> [t \in 1..2 |->
        IF /\ new_labels[refs_1 + 1] = current_state + s - 1
           /\ new_labels[refs_1 + 2] = current_state + t - 1
           /\ actions[refs_1 + 1] = action
        THEN 1 ELSE 0]]

\* SplitParams._calc_local_gain: [sp, ok, gain].  The result of
\* get_transition_refs is unpacked into two names, which fails unless it holds
\* exactly two references.  The mutual information is a function of the
\* matrices only; the gain is represented by the matrices it is computed from.
CalcLocalGain(p, sp) ==
    LET current_state == GetLeafIndex(p.tree, sp.node)
        result == GetTransitionRefs(p.tree, sp.node, FALSE, TRUE, FALSE).refs
        refs_1 == CHOOSE r \in result : \A q \in result : r <= q
        sp1 == InitNewLabels(p, sp)
        new_labels == [i \in DOMAIN sp1.new_labels[1] |->
                          IF i - 1 \in result
                          THEN current_state + Test(data[i], sp.test_params)
                          ELSE sp1.new_labels[1][i]]
    IN IF Cardinality(result) # 2
       THEN [sp |-> sp, ok |-> FALSE, gain |-> Nothing]
       ELSE [sp |-> [sp1 EXCEPT !.new_labels = Just(new_labels)],
             ok |-> TRUE,
             gain |-> Just([measure |-> "local",
                            active |-> sp.model_action,
                            matrices |-> [action \in GetKnownActions |->
                                LocalMatrix(new_labels, refs_1, current_state, action)]])]

\* SplitParams._calc_global_gain: [sp, ok, gain]; the gain is a function of the
\* matrices before and after the split.
CalcGlobalGain(p, sp) ==
    LET r == GetNewTrans(p, sp)
    IN IF ~r.ok
       THEN [sp |-> r.sp, ok |-> FALSE, gain |-> Nothing]
       ELSE [sp |-> r.sp,
             ok |-> TRUE,
             gain |-> Just([measure |-> "global",
                            active |-> sp.model_action,
                            old |-> p.transitions,
                            new |-> r.sp.new_trans[1]])]

\* SplitParams.get_gain: [sp, ok].
GetGain(p, sp, gain_measure) ==
    IF sp.gain # Nothing THEN [sp |-> sp, ok |-> TRUE]
    ELSE LET r == IF gain_measure = "local" THEN CalcLocalGain(p, sp)
                  ELSE CalcGlobalGain(p, sp)
         IN [sp |-> IF r.ok THEN [r.sp EXCEPT !.gain = r.gain] ELSE r.sp,
             ok |-> r.ok]

\* The four getters of a candidate.
Getters == {"get_gain", "get_new_labels", "get_new_dat_refs", "get_new_trans"}

\* One call of a getter: [sp, ok], the candidate after the call and whether the
\* call returned.
CallGetter(p, sp, getter, gain_measure) ==
    CASE getter = "get_gain" -> GetGain(p, sp, gain_measure)
      [] getter = "get_new_labels" -> [sp |-> GetNewLabels(p, sp), ok |-> TRUE]
      [] getter = "get_new_dat_refs" -> GetNewDatRefs(p, sp)
      [] getter = "get_new_trans" -> GetNewTrans(p, sp)

\* What a getter that returned hands to its caller.
Returned(sp, getter) ==
    CASE getter = "get_gain" -> sp.gain
      [] getter = "get_new_labels" -> sp.new_labels
      [] getter = "get_new_dat_refs" -> sp.new_dat_refs
      [] getter = "get_new_trans" -> sp.new_trans

\* The candidates of the leaves of a partitioning.
FreshCandidates(a) ==
    {SplitParams(partitionings[a], node, a, test_params) :
        node \in LeafSet(partitionings[a]), test_params \in Cuts}

\* The calls made on a candidate: a getter and, for get_gain, the gain measure
\* of the model.
GetterCalls ==
    {<<"get_gain", "local">>, <<"get_gain", "global">>, <<"get_new_labels", "">>,
     <<"get_new_dat_refs", "">>, <<"get_new_trans", "">>}

CallIndex(call) ==
    CASE call = <<"get_gain", "local">> -> 1
      [] call = <<"get_gain", "global">> -> 2
      [] call = <<"get_new_labels", "">> -> 3
      [] call = <<"get_new_dat_refs", "">> -> 4
      [] call = <<"get_new_trans", "">> -> 5

\* Each call made first on the candidate, in the order of CallIndex.
CalledFirst(p, sp) ==
    <<CallGetter(p, sp, "get_gain", "local"),
      CallGetter(p, sp, "get_gain", "global"),
      CallGetter(p, sp, "get_new_labels", ""),
      CallGetter(p, sp, "get_new_dat_refs", ""),
      CallGetter(p, sp, "get_new_trans", "")>>

\* Two different getters called one after the other (the gain measure of a
\* model does not change, so get_gain is one getter).
CallPairs ==
    {pair \in GetterCalls \X GetterCalls :
        /\ pair[1] # pair[2]
        /\ ~(pair[1][1] = "get_gain" /\ pair[2][1] = "get_gain")}

SelectedTransitions(owned, heading_in, inside, heading_out) ==
    {i \in 0..(GetNumberOfSamples - 2) :
        \/ inside /\ i \in owned /\ i + 1 \in owned
        \/ heading_out /\ i \in owned /\ i + 1 \notin owned
        \/ heading_in /\ i \notin owned /\ i + 1 \in owned}

\* C27: for every leaf and every combination of the flags, get_transition_refs
\* returns exactly the start indices of the selected transitions, and
\* get_transition_refs_for_action exactly those among them whose action is
\* the given one.
C27_TransitionRefsFollowFlags ==
    \A a \in Settled :
        \A node \in LeafSet(partitionings[a]) :
            \A heading_in \in BOOLEAN, inside \in BOOLEAN, heading_out \in BOOLEAN :
                \A r \in {GetTransitionRefs(partitionings[a].tree, node,
                                            heading_in, inside, heading_out)} :
                \A owned \in {GetDataRefs(partitionings[a].tree, node)} :
                    /\ r.ok
                    /\ r.refs = SelectedTransitions(owned, heading_in, inside, heading_out)
                    /\ \A action \in GetKnownActions :
                          \A q \in {GetTransitionRefsForAction(partitionings[a].tree, node,
                                        action, heading_in, inside, heading_out)} :
                              /\ q.ok
                              /\ q.refs = {i \in r.refs : actions[i + 1] = action}

C29_FailedSplitChangesNothing ==
    [][(err = "" /\ err' # "") => partitionings' = partitionings]_vars

\* C30: when a split of a leaf has been applied, a candidate of another leaf
\* that was evaluated before the split (its gain read, as calc_best_split
\* does) yields the labels, data references and matrices a candidate built in
\* the new state yields, and applying it keeps every leaf's references equal
\* to the observations labelled with its index.
C30_CachedCandidateFollowsSplit ==
    [][\A a \in Actions :
          SplitCompleted(a) =>
             \A node \in LeafSet(partitionings[a]) \cap LeafSet(partitionings'[a]) :
                \A test_params \in Cuts :
                   \A cached \in {GetGain(partitionings[a],
                                     SplitParams(partitionings[a], node, a, test_params),
                                     "global")} :
                   \A fresh \in {SplitParams(partitionings'[a], node, a, test_params)} :
                      cached.ok =>
                         /\ GetNewLabels(partitionings'[a], cached.sp).new_labels
                              = GetNewLabels(partitionings'[a], fresh).new_labels
                         /\ GetNewDatRefs(partitionings'[a], cached.sp).sp.new_dat_refs
                              = GetNewDatRefs(partitionings'[a], fresh).sp.new_dat_refs
                         /\ GetNewTrans(partitionings'[a], cached.sp).sp.new_trans
                              = GetNewTrans(partitionings'[a], fresh).sp.new_trans
                         /\ \A r \in {Apply(partitionings'[a], cached.sp)} :
                               r.err = "" =>
                                  \A leaf \in LeafSet(r.p) :
                                     r.p.tree[leaf].data_refs
                                       = WhereEq(r.p.labels, GetLeafIndex(r.p.tree, leaf))]_vars

----------------------------------------------------------------------------
(* Properties of the learning loop of the monolithic generation, checked   *)
(* under SpecTree.                                                         *)

\* The number of leaves of the monolithic tree.
OldNumberOfLeaves(ns) == Len(OldGetLeaves(ns, Root))

\* A step of the loop of learn: one call of single_splitting_step.
IsSingleSplittingStep == pc = "loop" /\ pc' = "loop" /\ err = ""

\* The step taken is the one single_splitting_step makes for the outcomes out.
StepIsFor(out) ==
    LET r == OldSingleSplittingStep(out)
    IN /\ nodes' = r.nodes
       /\ root_labels' = r.labels
       /\ root_transitions' = r.transitions
       /\ root_stats' = r.stats
       /\ gain' = r.gain
       /\ err' = r.err

\* The candidates a step scored with a gain.
Scored(out) ==
    LET ev == OldSingleSplittingStep(out).ev
    IN {c \in DOMAIN ev : ev[c].kind = "gain"}

\* The largest gain among the scored candidates.
MaxGain(out) ==
    CHOOSE g \in {out[c].gain : c \in Scored(out)} :
        \A c \in Scored(out) : out[c].gain <= g

\* The first scored candidate, in the order of evaluation, with the largest
\* gain: the one single_splitting_step decides for.
BestCandidate(out) ==
    LET leaves == OldGetLeaves(nodes, Root)
        best == {c \in Scored(out) : out[c].gain = MaxGain(out)}
        Before(c, d) == \/ OldGetClassLabel(nodes, c[1]) < OldGetClassLabel(nodes, d[1])
                        \/ c[1] = d[1] /\ c[2] <= d[2]
    IN CHOOSE c \in best : \A d \in best : Before(c, d)

\* C7: in an iteration of learn a split is applied if and only if the largest
\* gain over the evaluated candidates is >= min_gain, the split applied is the
\* one of the candidate with that gain (its leaf is split by its classifier),
\* and when the largest gain is below min_gain tree, labels and matrices stay
\* and the loop ends.
C7_AppliesBestCandidate ==
    [][IsSingleSplittingStep /\ err' = "" =>
        \A out \in [Candidates(nodes, root_transitions) -> Outcomes] :
            (StepIsFor(out) /\ Scored(out) # {}) =>
                LET best == BestCandidate(out)
                    grown == OldNumberOfLeaves(nodes') = OldNumberOfLeaves(nodes) + 1
                IN /\ grown <=> MaxGain(out) >= min_gain
                   /\ grown => /\ nodes'[best[1]].status = "split"
                               /\ nodes'[best[1]].knn = Just(out[best].cut)
                   /\ MaxGain(out) < min_gain =>
                         /\ DOMAIN nodes' = DOMAIN nodes
                         /\ root_labels' = root_labels
                         /\ root_transitions' = root_transitions
                         /\ ~(gain' >= min_gain)]_vars

\* C8: every iteration of learn applies a split that adds one leaf or ends the
\* loop (or the call, by an exception), whatever min_gain is.
C8_IterationSplitsOrEnds ==
    [][IsSingleSplittingStep =>
          \/ OldNumberOfLeaves(nodes') = OldNumberOfLeaves(nodes) + 1
          \/ ~(gain' >= min_gain)
          \/ err' # ""]_vars

\* A candidate whose classifier puts all observations of its leaf on one side.
Degenerate(out, c) ==
    /\ out[c].kind = "knn"
    /\ \/ \A r \in nodes[c[1]].dat_ref : Test(data[r + 1], out[c].cut) = 0
       \/ \A r \in nodes[c[1]].dat_ref : Test(data[r + 1], out[c].cut) = 1

\* C9: a candidate whose test leaves one side empty is discarded without any
\* effect: the step does not fail, the other candidates are evaluated, and the
\* step ends in the state it would end in had no classifier been fitted for
\* that candidate.
C9_DegenerateCandidateHasNoEffect ==
    [][IsSingleSplittingStep =>
        \A out \in [Candidates(nodes, root_transitions) -> Outcomes] :
            StepIsFor(out) =>
                \A c \in DOMAIN out :
                    Degenerate(out, c) =>
                        /\ err' = ""
                        /\ DOMAIN OldSingleSplittingStep(out).ev = DOMAIN out
                        /\ StepIsFor([out EXCEPT ![c] =
                                         [kind |-> "none", cut |-> 0, gain |-> 0]])]_vars

\* A step that is one call of the monolithic add_data.
IsOldAddData == err = "" /\ pc = "idle" /\ pc' = "idle" /\ err' # "AttributeError"

\* C12: after an add_data call that returns normally there are as many actions
\* as observations, and a call that fails on the length of its actions has
\* appended no observation, no label and no action.
C12_AddDataChecksActionLength ==
    [][IsOldAddData =>
          /\ err' = "" => Len(actions') = Len(data')
          /\ err' = "AssertionError" =>
                /\ data' = data
                /\ root_labels' = root_labels
                /\ actions' = actions]_vars

\* C13: the transition that starts at an observation whose action is unknown
\* is counted in no matrix when a later add_data call appends a batch behind
\* it.  (A later batch that gets as far as the counting has one observation,
\* so this transition is the only one the call sees.)
C13_UnknownActionNotCounted ==
    [][(/\ IsOldAddData
        /\ data # <<>>
        /\ Len(actions) = Len(data)
        /\ actions[Len(actions)] = None
        /\ err' \in {"", "KeyError"})
       => /\ err' = ""
          /\ root_transitions' = root_transitions]_vars

\* C14: an add_data call whose actions have an accepted length appends the
\* labels classify gives the new observations: afterwards there is exactly
\* one label per stored observation, and the observations, actions and labels
\* stored before are unchanged at their old indices.
C14_AddDataAppendsLabels ==
    [][(IsOldAddData /\ err' \notin {"AssertionError", "KeyError"})
       => /\ err' = ""
          /\ Len(root_labels') = Len(data')
          /\ SubSeq(data', 1, Len(data)) = data
          /\ SubSeq(actions', 1, Len(actions)) = actions
          /\ SubSeq(root_labels', 1, Len(root_labels)) = root_labels
          /\ \A i \in (Len(data) + 1)..Len(data') :
                root_labels'[i] = OldClassify(nodes, Root, data'[i])]_vars

\* C16: a pass of the loop of learn that applies a split appends exactly one
\* stats snapshot, whose state count is the number of leaves after the split;
\* a pass that applies none appends none.
C16_SplitAppendsSnapshot ==
    [][IsSingleSplittingStep =>
          IF OldNumberOfLeaves(nodes') = OldNumberOfLeaves(nodes)
          THEN root_stats' = root_stats
          ELSE /\ Len(root_stats') = Len(root_stats) + 1
               /\ SubSeq(root_stats', 1, Len(root_stats)) = root_stats
               /\ root_stats'[Len(root_stats')].n_states = OldNumberOfLeaves(nodes')]_vars

\* The leaves of the monolithic tree, as a set.
OldLeafSet(ns) == {n \in DOMAIN ns : ns[n].status = "leaf"}

\* C20: the leaf indices are exactly 0..K-1, each the leaf's position in
\* get_leaves(); when the leaf with index idx is split its children get idx
\* and idx + 1, the leaves with a smaller index keep it and the leaves with a
\* larger index get one more.
C20_LeafIndicesShiftOnSplit ==
    [][/\ {OldGetClassLabel(nodes', n) : n \in OldLeafSet(nodes')}
            = 0..(OldNumberOfLeaves(nodes') - 1)
       /\ \A n \in OldLeafSet(nodes') :
             OldGetLeaves(nodes', Root)[OldGetClassLabel(nodes', n) + 1] = n
       /\ \A node \in OldLeafSet(nodes) \ OldLeafSet(nodes') :
             \A idx \in {OldGetClassLabel(nodes, node)} :
                /\ OldGetClassLabel(nodes', Child(node, 0)) = idx
                /\ OldGetClassLabel(nodes', Child(node, 1)) = idx + 1
                /\ \A other \in OldLeafSet(nodes) \ {node} :
                      OldGetClassLabel(nodes', other) =
                         IF OldGetClassLabel(nodes, other) < idx
                         THEN OldGetClassLabel(nodes, other)
                         ELSE OldGetClassLabel(nodes, other) + 1]_vars

\* C20 witness: the first of two leaves was split, so that the index of the
\* second went from 1 to 2.
C20_Witness ==
    /\ err = ""
    /\ <<0, 0>> \in DOMAIN nodes
    /\ nodes[<<1>>].status = "leaf"
    /\ OldGetClassLabel(nodes, <<1>>) = 2

\* WorldModelTree._entropy(dist, normalize, ignore_empty_classes): [ok, form,
\* ...].  The constant results are numbers; log2(K) and the computed entropy
\* are kept as terms.
OldEntropy(dist, normalize, ignore_empty_classes) ==
    IF \E i \in DOMAIN dist : dist[i] < 0
    THEN [ok |-> FALSE, form |-> "AssertionError"]
    ELSE IF Len(dist) <= 1
    THEN [ok |-> TRUE, form |-> "number", number |-> 1]
    ELSE IF SumSeq(dist) = 0
    THEN IF ~ignore_empty_classes
         THEN [ok |-> FALSE, form |-> "AssertionError"]
         ELSE IF normalize
         THEN [ok |-> TRUE, form |-> "number", number |-> 1]
         ELSE [ok |-> TRUE, form |-> "log2", of |-> Len(dist)]
    ELSE [ok |-> TRUE, form |-> "entropy", dist |-> dist, normalize |-> normalize]

\* The rows _matrix_entropy hands to _entropy: the rows of the transition
\* matrices of the tree.
EntropyInputs ==
    UNION {{root_transitions[action][s] : s \in DOMAIN root_transitions[action]} :
              action \in DOMAIN root_transitions}

\* C26: the entropy of a weight vector with at most one entry is 0 when it is
\* not normalized and 1 when it is.
C26_EntropyOfOneClass ==
    \A dist \in EntropyInputs :
        Len(dist) <= 1 =>
            \A normalize \in BOOLEAN, ignore_empty_classes \in BOOLEAN :
                \A e \in {OldEntropy(dist, normalize, ignore_empty_classes)} :
                    /\ e.ok
                    /\ e.form = "number"
                    /\ e.number = IF normalize THEN 1 ELSE 0


----------------------------------------------------------------------------
(* WorldModelTree._merge_matrix (worldmodel.py), applied to count matrices *)
(* of bounded size; checked under SpecMerge, where root.transitions is the *)
(* single matrix _merge_nodes hands to it.                                 *)

\* The matrices given to _merge_matrix have up to MaxK rows and entries up to
\* MaxCount.
MaxK == 3
MaxCount == 2

\* matrix[s1, :] += matrix[s2, :]
AddRow(M, s1, s2) ==
    [s \in DOMAIN M |->
        IF s = s1 + 1 THEN [t \in DOMAIN M[s] |-> M[s][t] + M[s2 + 1][t]] ELSE M[s]]

\* np.delete(matrix, s2, 0)
DeleteRow(M, s2) ==
    [s \in 1..(Len(M) - 1) |-> IF s < s2 + 1 THEN M[s] ELSE M[s + 1]]

\* matrix[:, s1] += matrix[:, s2]
\* Variant that leaves the column as it is.
AddCol_Skipped(M, s1, s2) == M

AddCol(M, s1, s2) ==
    [s \in DOMAIN M |->
        [t \in DOMAIN M[s] |-> IF t = s1 + 1 THEN M[s][t] + M[s][s2 + 1] ELSE M[s][t]]]

\* np.delete(matrix, s2, 1)
DeleteCol(M, s2) ==
    [s \in DOMAIN M |->
        [t \in 1..(Len(M[s]) - 1) |-> IF t < s2 + 1 THEN M[s][t] ELSE M[s][t + 1]]]

\* WorldModelTree._merge_matrix(matrix, s1, s2): the returned matrix.
MergeMatrix(matrix, s1, s2) ==
    DeleteCol(AddCol(DeleteRow(AddRow(matrix, s1, s2), s2), s1, s2), s2)

\* The square count matrices of the bounded sizes.
MergeInputs == UNION {[1..K -> [1..K -> 0..MaxCount]] : K \in 1..MaxK}

\* A matrix is at hand; nothing else of the model is used.
InitMerge ==
    /\ InitModel
    /\ nodes = [n \in {Root} |-> OldNewNode]
    /\ root_labels = <<>>
    /\ root_labels_ndim = 1
    /\ root_transitions \in MergeInputs
    /\ root_stats = <<>>
    /\ pc = "idle"
    /\ min_gain = 0
    /\ gain = 0

\* root.transitions = self._merge_matrix(root.transitions, s1, s2)
MergeStep(s1, s2) ==
    /\ s1 < Len(root_transitions)
    /\ s2 < Len(root_transitions)
    /\ root_transitions' = MergeMatrix(root_transitions, s1, s2)
    /\ UNCHANGED <<data, actions, partitionings, err, nodes, root_labels,
                   root_labels_ndim, root_stats, pc, min_gain, gain>>

NextMerge == \E s1 \in 0..(MaxK - 1), s2 \in 0..(MaxK - 1) : MergeStep(s1, s2)

SpecMerge == InitMerge /\ [][NextMerge]_vars

\* The old indices that end up at index s of the merged matrix.
MergedFrom(s, i, j) == IF s = i THEN {i, j} ELSE IF s < j THEN {s} ELSE {s + 1}

RECURSIVE SumCells(_, _)
SumCells(M, cells) ==
    IF cells = {} THEN 0
    ELSE LET c == CHOOSE c \in cells : TRUE
         IN Cell(M, c[1], c[2]) + SumCells(M, cells \ {c})

\* C24: for a K x K matrix and i < j, the merged matrix is (K-1) x (K-1), row
\* and column i hold the sums of the old rows and columns i and j, row and
\* column j are gone, every other entry is unchanged, and the total over all
\* entries is the total of the input.
C24_MergeAddsAndDeletes ==
    \A i \in 0..(Len(root_transitions) - 1), j \in 0..(Len(root_transitions) - 1) :
        i < j =>
            \A R \in {MergeMatrix(root_transitions, i, j)} :
                /\ Len(R) = Len(root_transitions) - 1
                /\ \A s \in 0..(Len(R) - 1) :
                      /\ Len(R[s + 1]) = Len(root_transitions) - 1
                      /\ \A t \in 0..(Len(R) - 1) :
                            Cell(R, s, t) = SumCells(root_transitions,
                                                MergedFrom(s, i, j) \X MergedFrom(t, i, j))
                /\ MatSum(R) = MatSum(root_transitions)

\* The full matrix of the largest size has been merged once.
C24_Witness ==
    /\ Len(root_transitions) = MaxK - 1
    /\ MatSum(root_transitions) = MaxK * MaxK * MaxCount


----------------------------------------------------------------------------
(* WorldmodelTrivial (worldmodel_methods.py): the grid cut.  Checked under *)
(* SpecGrid, where nodes holds the tree of grid nodes: a path maps to      *)
(* [minima, maxima, split_params], the box being None until                *)
(* _calc_test_params stores it.  Coordinates are counted in units of       *)
(* 1 / GridUnit, so that every midpoint of the bounded tree is a whole     *)
(* number.                                                                 *)

\* The input dimension D and the depth of the trees.
GridDim == 2
MaxGridDepth == 3

GridUnit == 2 ^ MaxGridDepth
Dims == 0..(GridDim - 1)

\* WorldmodelTrivial.__init__
GridNode == [minima |-> Nothing, maxima |-> Nothing, split_params |-> Nothing]

\* np.argmax(diffs): the first index of the largest entry.
\* Variant that returns the last index of the largest entry.
ArgMax_Last(diffs) ==
    CHOOSE d \in DOMAIN diffs :
        /\ \A e \in DOMAIN diffs : diffs[e] <= diffs[d]
        /\ \A e \in DOMAIN diffs : e > d => diffs[e] < diffs[d]

ArgMax(diffs) ==
    CHOOSE d \in DOMAIN diffs :
        /\ \A e \in DOMAIN diffs : diffs[e] <= diffs[d]
        /\ \A e \in DOMAIN diffs : e < d => diffs[e] < diffs[d]

\* The borders a child takes from its parent: the first child gets the cut as
\* its upper border, the second as its lower border.
BordersFromParent(parent, child_index) ==
    LET dim == parent.split_params[1].dim
        cut == parent.split_params[1].cut
    IN IF child_index = 0
       THEN [minima |-> parent.minima[1],
             maxima |-> [parent.maxima[1] EXCEPT ![dim] = cut]]
       ELSE [minima |-> [parent.minima[1] EXCEPT ![dim] = cut],
             maxima |-> parent.maxima[1]]

\* The borders of a node once _calc_test_params has initialised them.
Borders(tree, node) ==
    IF tree[node].minima # Nothing
    THEN [minima |-> tree[node].minima[1], maxima |-> tree[node].maxima[1]]
    ELSE IF node = Root
    THEN [minima |-> [d \in Dims |-> 0], maxima |-> [d \in Dims |-> GridUnit]]
    ELSE BordersFromParent(tree[SubSeq(node, 1, Len(node) - 1)], node[Len(node)])

\* WorldmodelTrivial._calc_test_params: [tree, params], the tree with the
\* node's borders stored and the returned TestParams(dim, cut).
CalcTestParams(tree, node) ==
    LET box == Borders(tree, node)
        diffs == [d \in Dims |-> box.maxima[d] - box.minima[d]]
        dim == ArgMax(diffs)
        cut == box.minima[dim] + (box.maxima[dim] - box.minima[dim]) \div 2
    IN [tree |-> [tree EXCEPT ![node].minima = Just(box.minima),
                              ![node].maxima = Just(box.maxima)],
        params |-> [dim |-> dim, cut |-> cut]]

\* WorldmodelTrivial._test
GridTest(x, params) == IF x[params.dim] > params.cut THEN 1 ELSE 0

\* A single grid node without borders.
InitGrid ==
    /\ InitModel
    /\ nodes = [n \in {Root} |-> GridNode]
    /\ root_labels = <<>>
    /\ root_labels_ndim = 1
    /\ root_transitions = <<>>
    /\ root_stats = <<>>
    /\ pc = "idle"
    /\ min_gain = 0
    /\ gain = 0

\* leaf._calc_test_params(...) on its own, as for a candidate that is not applied.
GridCalcTestParams(node) ==
    /\ IsLeaf(nodes, node)
    /\ nodes' = CalcTestParams(nodes, node).tree
    /\ UNCHANGED <<data, actions, partitionings, err, root_labels, root_labels_ndim,
                   root_transitions, root_stats, pc, min_gain, gain>>

\* The parameters of the leaf are calculated and a candidate with them is
\* applied: the node keeps the parameters and gets two children.
GridSplit(node) ==
    /\ IsLeaf(nodes, node)
    /\ Len(node) < MaxGridDepth
    /\ \E r \in {CalcTestParams(nodes, node)} :
          nodes' = [n \in DOMAIN nodes \cup {Child(node, 0), Child(node, 1)} |->
                       IF n = node THEN [r.tree[n] EXCEPT !.split_params = Just(r.params)]
                       ELSE IF n \in DOMAIN nodes THEN r.tree[n]
                       ELSE GridNode]
    /\ UNCHANGED <<data, actions, partitionings, err, root_labels, root_labels_ndim,
                   root_transitions, root_stats, pc, min_gain, gain>>

GridNodes == UNION {[1..d -> {0, 1}] : d \in 0..MaxGridDepth}

NextGrid ==
    \/ \E node \in GridNodes : GridCalcTestParams(node)
    \/ \E node \in GridNodes : GridSplit(node)

SpecGrid == InitGrid /\ [][NextGrid]_vars

\* The points a test is asked about: the grid points of the unit cube and one
\* layer around it.
Points == [Dims -> -1..(GridUnit + 1)]

\* x lies in the box, borders included.
InBox(x, box) == \A d \in Dims : box.minima[d] <= x[d] /\ x[d] <= box.maxima[d]

GridLeaves == {node \in DOMAIN nodes : IsLeaf(nodes, node)}
GridInner == DOMAIN nodes \ GridLeaves

\* The strategy's answer for a leaf: the lowest dimension of largest extent,
\* the midpoint along it, the borders inherited from the parent with one of
\* them replaced by the parent's cut, and the same answer when asked again.
GridCutOfLeaf(node) ==
    \A r \in {CalcTestParams(nodes, node)} :
    \A box \in {[minima |-> r.tree[node].minima[1], maxima |-> r.tree[node].maxima[1]]} :
        /\ \A d \in Dims :
              /\ box.maxima[d] - box.minima[d]
                   <= box.maxima[r.params.dim] - box.minima[r.params.dim]
              /\ d < r.params.dim =>
                    box.maxima[d] - box.minima[d]
                      < box.maxima[r.params.dim] - box.minima[r.params.dim]
        /\ 2 * r.params.cut = box.minima[r.params.dim] + box.maxima[r.params.dim]
        /\ node # Root =>
              \A parent \in {nodes[SubSeq(node, 1, Len(node) - 1)]} :
                 \A d \in Dims :
                    /\ box.minima[d] =
                         IF d = parent.split_params[1].dim /\ node[Len(node)] = 1
                         THEN parent.split_params[1].cut ELSE parent.minima[1][d]
                    /\ box.maxima[d] =
                         IF d = parent.split_params[1].dim /\ node[Len(node)] = 0
                         THEN parent.split_params[1].cut ELSE parent.maxima[1][d]
        /\ CalcTestParams(r.tree, node) = r

\* C25 as stated: the grid cut of every leaf is as described, and the test of
\* a split node answers 1 for exactly the points of the second child's box.
C25_TestIsSecondChildsBox ==
    /\ \A node \in GridLeaves : GridCutOfLeaf(node)
    /\ \A node \in GridInner :
          \A x \in Points :
             GridTest(x, nodes[node].split_params[1]) = 1
               <=> InBox(x, Borders(nodes, Child(node, 1)))

\* C25, amended: the grid cut of every leaf is as described, and for the points
\* of a split node's box the test answers 1 exactly for those outside the
\* first child's box, all of which lie in the second child's box.
C25_TestSeparatesChildBoxes ==
    /\ \A node \in GridLeaves : GridCutOfLeaf(node)
    /\ \A node \in GridInner :
          \A x \in Points :
             InBox(x, Borders(nodes, node)) =>
                /\ GridTest(x, nodes[node].split_params[1]) = 1
                     <=> ~InBox(x, Borders(nodes, Child(node, 0)))
                /\ GridTest(x, nodes[node].split_params[1]) = 1
                     => InBox(x, Borders(nodes, Child(node, 1)))

\* A node two levels below the root has been split and its second child has
\* taken its borders from it.
C25_Witness ==
    \E node \in GridInner :
        /\ Len(node) = 2
        /\ nodes[Child(node, 1)].minima # Nothing

====
